---- MODULE Spec2Model ----
(***************************************************************************)
(* SQLiteEndpointRepository (server/storage/providers/sqlite/repositories/ *)
(* endpoint.go): the endpoint table, the caller's ambient transaction and  *)
(* the seven repository operations.  A repository call is synchronous, so  *)
(* each call is one action; the store's failures are inputs of the call.   *)
(***************************************************************************)
EXTENDS Integers, Sequences, FiniteSets, TLC

VARIABLES
    rows,         \* the committed rows of the endpoint table
    ctx,          \* the caller's own transaction (passed as tx to the repository)
    last,         \* what the last call was given, did and returned
    expected,     \* history: the rows committed when the caller began ctx, as the
                  \*   calls with tx = nil have changed them since
    nested,       \* history: the Creates made with ctx since the caller began it
    created,      \* history: the last standalone Create's entity and identifier
    keys,         \* the identifiers the table can assign to a new row
    hist          \* history of the calls on a store that starts empty: rows
                  \*   inserted and deleted so far, identifiers deleted, and how
                  \*   the last call relates to the one before it

vars == <<rows, ctx, last, expected, nested, created, keys, hist>>

----------------------------------------------------------------------------
\* Bounds of the model.

\* Identifiers the table hands out are 1..MaxId.
MaxId == 1
\* The literal of a Find name pattern has at most MaxLit characters.
MaxLit == 2
\* The tables Find is checked on hold rows with ids in 1..MaxRows.
MaxRows == 4
\* take-count and skip-offset of a Find filter go up to MaxTake and MaxSkip.
MaxTake == 2
MaxSkip == 1
\* The store of the counting history assigns identifiers 1..MaxKeys and takes
\* at most MaxCreates successful Creates.
MaxKeys == 3
MaxCreates == 3

----------------------------------------------------------------------------
\* Values.

NoErr == <<>>
Nil == <<>>
Ptr(x) == <<x>>

Ids == 0..MaxId

\* Names are sequences of characters.
NameA == <<"a", "b">>
NameB == <<"b", "a">>

\* notification.Endpoint values a caller builds (Id 0: not yet persisted).
NewEndpoints ==
    { [Id |-> 0, Name |-> NameA, Url |-> "u1", Method |-> "GET",  Headers |-> "h1"],
      [Id |-> 0, Name |-> NameB, Url |-> "u2", Method |-> "POST", Headers |-> "h2"] }

\* A row of the table: id, name, url, method, headers (endpointSelectQuery).
RowOf(id, e) ==
    [id |-> id, name |-> e.Name, url |-> e.Url, method |-> e.Method, headers |-> e.Headers]

IdsOf(table) == { r.id : r \in table }

Max(a, b) == IF a > b THEN a ELSE b
Min(a, b) == IF a < b THEN a ELSE b

----------------------------------------------------------------------------
\* database/sql over SQLite, as the repository uses it.  A world w is the store
\* during one call: the committed rows, the caller's transaction ctx, the
\* transaction own the call may open, the statements the call has prepared and
\* that are still open (on the connection handle db and on each transaction),
\* the library calls made so far, those of them that failed, and the last
\* library error.

NoTx == [status |-> "none", dirty |-> FALSE, view |-> {}]
NoStmts == [db |-> 0, ctx |-> 0, own |-> 0]

World(r, c) ==
    [rows |-> r, ctx |-> c, own |-> NoTx, stmts |-> NoStmts, events |-> <<>>,
     fault |-> <<>>, err |-> NoErr, id |-> 0, out |-> <<>>, panic |-> FALSE]

TxOf(w, t) == IF t = "ctx" THEN w.ctx ELSE w.own
SetTx(w, t, r) == IF t = "ctx" THEN [w EXCEPT !.ctx = r] ELSE [w EXCEPT !.own = r]
Other(t) == IF t = "ctx" THEN "own" ELSE "ctx"

Log(w, e) == [w EXCEPT !.events = Append(@, e)]
\* The library call e was made and failed with the error named cause.
Fail(w, e, cause) ==
    [w EXCEPT !.events = Append(@, e), !.fault = Append(@, cause), !.err = <<cause>>]

\* What a statement of transaction t sees: its own writes, else the committed rows.
TxView(w, t) == IF TxOf(w, t).dirty THEN TxOf(w, t).view ELSE w.rows

\* SQLite has one writer: a write fails while another open transaction holds
\* the write lock.
Locked(w, t) == TxOf(w, Other(t)).status = "open" /\ TxOf(w, Other(t)).dirty

\* db.Begin()
DbBegin(w, f) ==
    IF "begin" \in f
    THEN Fail(w, "Begin", "begin")
    ELSE [Log(w, "Begin") EXCEPT !.own = [NoTx EXCEPT !.status = "open"], !.err = NoErr]

\* tx.Prepare(): the statement belongs to the transaction and is closed with it.
TxPrepare(w, t, f) ==
    IF "prepare" \in f
    THEN Fail(w, "Prepare", "prepare")
    ELSE [Log(w, "Prepare") EXCEPT !.stmts[t] = @ + 1, !.err = NoErr]

\* stmt.Exec() of a write whose result is the table new.
StmtExec(w, t, new, f) ==
    IF "exec" \in f \/ Locked(w, t)
    THEN Fail(w, "Exec", "exec")
    ELSE [SetTx(Log(w, "Exec"), t, [TxOf(w, t) EXCEPT !.dirty = TRUE, !.view = new])
             EXCEPT !.err = NoErr]

\* tx.Commit(): the handle is done afterwards, whether or not the store
\* accepted, and the statements of the transaction are closed.
TxCommit(w, t, f) ==
    IF "commit" \in f
    THEN [SetTx(Fail(w, "Commit", "commit"), t, [NoTx EXCEPT !.status = "failed"])
             EXCEPT !.stmts[t] = 0]
    ELSE [SetTx(Log(w, "Commit"), t, [NoTx EXCEPT !.status = "committed"])
             EXCEPT !.stmts[t] = 0, !.rows = TxView(w, t), !.err = NoErr]

\* tx.Rollback(): the handle is done afterwards, the writes are dropped and the
\* statements of the transaction are closed.
TxRollback(w, t, f) ==
    IF "rollback" \in f
    THEN [SetTx(Fail(w, "Rollback", "rollback"), t, [NoTx EXCEPT !.status = "failed"])
             EXCEPT !.stmts[t] = 0]
    ELSE [SetTx(Log(w, "Rollback"), t, [NoTx EXCEPT !.status = "rolledback"])
             EXCEPT !.stmts[t] = 0, !.err = NoErr]

\* db.Prepare(): a statement on the connection handle.
DbPrepare(w, f) ==
    IF "prepare" \in f
    THEN Fail(w, "Prepare", "prepare")
    ELSE [Log(w, "Prepare") EXCEPT !.stmts.db = @ + 1, !.err = NoErr]

\* stmt.Close()
StmtClose(w) == [Log(w, "Close") EXCEPT !.stmts.db = @ - 1]

----------------------------------------------------------------------------
\* The transaction coordinator (storage.TryToBegin, TryToCommit, TryToRollback).

\* acquire: a given transaction is borrowed, a new one is owned.
TryToBegin(w, tx, f) ==
    IF tx # "nil"
    THEN [w |-> [w EXCEPT !.err = NoErr], tx |-> tx, closeTx |-> FALSE]
    ELSE [w |-> DbBegin(w, f), tx |-> "own", closeTx |-> TRUE]

\* resolve_commit: commits iff owned.
TryToCommit(w, tx, closeTx, f) ==
    IF closeTx THEN TxCommit(w, tx, f) ELSE [w EXCEPT !.err = NoErr]

\* resolve_rollback: rolls back iff owned and returns the cause, wrapped in the
\* rollback's failure when the rollback fails.
TryToRollback(w, tx, err, closeTx, f) ==
    IF closeTx
    THEN LET r == TxRollback(w, tx, f)
         IN  [r EXCEPT !.err = IF r.err # NoErr THEN r.err \o err ELSE err]
    ELSE [w EXCEPT !.err = err]

----------------------------------------------------------------------------
\* Reads of the store and the entity mapper.

\* The rows of a table in ascending id order (ORDER BY id).
RECURSIVE OrderById(_)
OrderById(table) ==
    IF table = {} THEN <<>>
    ELSE LET r == CHOOSE x \in table : \A y \in table : x.id <= y.id
         IN  <<r>> \o OrderById(table \ {r})

\* LIMIT n OFFSET k of SQLite: a negative offset counts as 0.
Window(s, n, k) == SubSeq(s, Max(k, 0) + 1, Min(Len(s), Max(k, 0) + n))

\* The row a mapped row comes from, as an entity.
EndpointOf(r) ==
    [Id |-> r.id, Name |-> r.name, Url |-> r.url, Method |-> r.method, Headers |-> r.headers]

\* Mutant: the row is read inside the caller's transaction.
QueryRowInTx(w, id) == Window(OrderById({ r \in TxView(w, "ctx") : r.id = id }), 1, 0)

\* Mutant: the WHERE id=? clause is dropped.
QueryRowAny(w, id) == Window(OrderById(w.rows), 1, 0)

\* stmt.QueryRow(id) of "... WHERE id=? LIMIT 1" on the connection handle.
QueryRowById(w, id) == Window(OrderById({ r \in w.rows : r.id = id }), 1, 0)

\* Mutant: the count carries a name filter.
CountRowsFiltered(w) == Cardinality({ r \in w.rows : r.name = NameA })

\* stmt.QueryRow() of "SELECT count(*) FROM endpoint" on the connection handle.
CountRows(w) == Cardinality(w.rows)

\* mapping.ToEndpoint: no row is the not-found failure, a row is its entity.
ToEndpoint(w, sel, f) ==
    IF sel = <<>> THEN [w EXCEPT !.err = <<"not found">>]
    ELSE IF "scan" \in f THEN Fail(w, "Scan", "scan")
    ELSE [w EXCEPT !.err = NoErr, !.out = <<EndpointOf(sel[1])>>]

\* mapping.ToEndpoints: every row, in the order the statement returned them.
ToEndpoints(w, sel, take, f) ==
    IF "scan" \in f THEN Fail(w, "Scan", "scan")
    ELSE [w EXCEPT !.err = NoErr, !.out = [i \in 1..Len(sel) |-> EndpointOf(sel[i])]]

----------------------------------------------------------------------------
\* The pieces of the repository's calls.

GetValidate(id) == IF id = 0 THEN <<"id must be greater than 0">> ELSE NoErr

\* Mutant: the identifier is not checked before the transaction is acquired.
CreateValidateNilOnly(endpoint) ==
    IF endpoint = Nil THEN <<"endpoint missed">> ELSE NoErr

CreateValidate(endpoint) ==
    IF endpoint = Nil THEN <<"endpoint missed">>
    ELSE IF endpoint[1].Id > 0 THEN <<"endpoint already created">>
    ELSE NoErr

\* Mutant: the ownership flag is dropped and every transaction treated as owned.
CreateAcquireOwning(w, tx, f) == [TryToBegin(w, tx, f) EXCEPT !.closeTx = TRUE]

CreateAcquire(w, tx, f) == TryToBegin(w, tx, f)

\* Mutant: the INSERT runs on the connection handle, outside the transaction.
CreateExecOnDb(w, t, e, nid, f) ==
    IF "exec" \in f \/ nid \in IdsOf(w.rows) THEN Fail(w, "Exec", "exec")
    ELSE [Log(w, "Exec") EXCEPT !.rows = @ \cup {RowOf(nid, e)}, !.err = NoErr]

\* Mutant: url and method are bound in each other's place.
CreateExecSwapped(w, t, e, nid, f) ==
    StmtExec(w, t, TxView(w, t) \cup {RowOf(nid, [e EXCEPT !.Url = e.Method, !.Method = e.Url])},
             IF nid \in IdsOf(TxView(w, t)) THEN f \cup {"exec"} ELSE f)

\* Mutant: the INSERT does not get a fresh identifier.
CreateExecReuse(w, t, e, nid, f) ==
    StmtExec(w, t, TxView(w, t) \cup {RowOf(nid, e)}, f)

\* Mutant: INSERT OR IGNORE of an entity the table already holds.
CreateExecIdempotent(w, t, e, nid, f) ==
    StmtExec(w, t,
             IF \E r \in TxView(w, t) : EndpointOf(r) = [e EXCEPT !.Id = r.id]
             THEN TxView(w, t) ELSE TxView(w, t) \cup {RowOf(nid, e)},
             IF nid \in IdsOf(TxView(w, t)) THEN f \cup {"exec"} ELSE f)

\* stmt.Exec(name, url, method, headers) of the INSERT: the store assigns the
\* identifier nid, and the insert fails when it has none left to assign.
CreateExec(w, t, e, nid, f) ==
    StmtExec(w, t, TxView(w, t) \cup {RowOf(nid, e)},
             IF nid \in IdsOf(TxView(w, t)) THEN f \cup {"exec"} ELSE f)

\* res.LastInsertId()
LastInsertId(w, nid, f) ==
    IF "lastid" \in f
    THEN Fail(w, "LastInsertId", "lastid")
    ELSE [Log(w, "LastInsertId") EXCEPT !.err = NoErr, !.id = nid]

\* Mutant: the error is returned without the rollback.
CreateFailNoRollback(w, t, closeTx, f) == [w EXCEPT !.id = 0]

\* Mutant: the rollback is made and its result dropped; the call returns no error.
CreateFailSwallowed(w, t, closeTx, f) ==
    [TryToRollback(w, t, w.err, closeTx, f) EXCEPT !.id = 0, !.err = NoErr]

\* return 0, storage.TryToRollback(tx, err, closeTx)
CreateFail(w, t, closeTx, f) == [TryToRollback(w, t, w.err, closeTx, f) EXCEPT !.id = 0]

\* Mutant: the identifier is returned whatever the commit says.
CreateCommitKeepsId(w, t, closeTx, f) == TryToCommit(w, t, closeTx, f)

\* Mutant: a failed commit is followed by a rollback.
CreateCommitThenRollback(w, t, closeTx, f) ==
    LET c == TryToCommit(w, t, closeTx, f)
    IN  IF c.err # NoErr THEN [TryToRollback(c, t, c.err, closeTx, f) EXCEPT !.id = 0] ELSE c

\* err = storage.TryToCommit(tx, closeTx), and the identifier only without error
CreateCommit(w, t, closeTx, f) ==
    LET c == TryToCommit(w, t, closeTx, f)
    IN  IF c.err # NoErr THEN [c EXCEPT !.id = 0] ELSE c

UpdateValidate(endpoint) ==
    IF endpoint = Nil THEN <<"endpoint missed">>
    ELSE IF endpoint[1].Id = 0 \/ endpoint[1].Id < 0 THEN <<"endpoint not created yet">>
    ELSE NoErr

\* Mutant: the call checks the rows affected and treats none as an error.
UpdateExecStrict(w, t, e, f) ==
    LET x == StmtExec(w, t, { IF r.id = e.Id THEN RowOf(r.id, e) ELSE r : r \in TxView(w, t) }, f)
    IN  IF x.err = NoErr /\ e.Id \notin IdsOf(TxView(w, t))
        THEN [x EXCEPT !.err = <<"no rows affected">>] ELSE x

\* stmt.Exec(name, url, method, headers, id) of the UPDATE ... WHERE id=?.
UpdateExec(w, t, e, f) ==
    StmtExec(w, t, { IF r.id = e.Id THEN RowOf(r.id, e) ELSE r : r \in TxView(w, t) }, f)

DeleteValidate(id) == IF id = 0 THEN <<"id must be greater than 0">> ELSE NoErr

\* Mutant: the call checks the rows affected and treats none as an error.
DeleteExecStrict(w, t, id, f) ==
    LET x == StmtExec(w, t, { r \in TxView(w, t) : r.id # id }, f)
    IN  IF x.err = NoErr /\ id \notin IdsOf(TxView(w, t))
        THEN [x EXCEPT !.err = <<"no rows affected">>] ELSE x

\* stmt.Exec(id) of the DELETE ... WHERE id=?.
DeleteExec(w, t, id, f) == StmtExec(w, t, { r \in TxView(w, t) : r.id # id }, f)

DeleteManyValidate(ids) ==
    IF Cardinality(ids) = 0 THEN <<"passed empty list of ids">> ELSE NoErr

\* Mutant: only the first identifier of the list is deleted.
DeleteManyExecFirst(w, t, ids, f) ==
    StmtExec(w, t, { r \in TxView(w, t) : \E i \in ids : i < r.id \/ r.id \notin ids }, f)

\* stmt.Exec() of the DELETE ... WHERE id IN (ids).
DeleteManyExec(w, t, ids, f) ==
    StmtExec(w, t, { r \in TxView(w, t) : r.id \notin ids }, f)

----------------------------------------------------------------------------
\* Find

HasPrefixStar(s) == Len(s) > 0 /\ s[1] = "*"
HasSuffixStar(s) == Len(s) > 0 /\ s[Len(s)] = "*"
NotStar(c) == c # "*"
\* strings.Replace(arg, "*", "", -1)
StripStars(s) == SelectSeq(s, NotStar)

\* The bound parameter of a name filter with a leading or trailing "*".
FindArg(name) ==
    IF HasPrefixStar(name) /\ HasSuffixStar(name) THEN <<"%">> \o StripStars(name) \o <<"%">>
    ELSE IF HasSuffixStar(name) THEN StripStars(name) \o <<"%">>
    ELSE <<"%">> \o StripStars(name)

\* Mutant: skip and take are appended in the wrong order.
FindWindowArgsSwapped(q) == [limit |-> q.Skip, offset |-> q.Take]

\* The LIMIT ? OFFSET ? arguments, in the order they are appended.
FindWindowArgs(q) == [limit |-> q.Take, offset |-> q.Skip]

\* The statement Find builds: its WHERE clause, bound name and window.
FindCompile(query) ==
    IF query # Nil
    THEN LET q == query[1] IN
         [where |-> IF q.Name = <<>> THEN "none"
                    ELSE IF HasPrefixStar(q.Name) \/ HasSuffixStar(q.Name) THEN "like"
                    ELSE "eq",
          arg |-> IF q.Name = <<>> THEN <<>>
                  ELSE IF HasPrefixStar(q.Name) \/ HasSuffixStar(q.Name) THEN FindArg(q.Name)
                  ELSE q.Name,
          window |-> q.Take > 0,
          limit |-> FindWindowArgs(q).limit,
          offset |-> FindWindowArgs(q).offset]
    ELSE [where |-> "none", arg |-> <<>>, window |-> FALSE, limit |-> 0, offset |-> 0]

\* SQLite compares LIKE characters without regard to ASCII case.
Fold(c) == IF c = "A" THEN "a" ELSE IF c = "B" THEN "b" ELSE c

\* name LIKE p in SQLite: % is any run of characters, _ any one character.
RECURSIVE Like(_, _)
Like(p, s) ==
    IF p = <<>> THEN s = <<>>
    ELSE IF p[1] = "%" THEN Like(Tail(p), s) \/ (s # <<>> /\ Like(p, Tail(s)))
    ELSE s # <<>> /\ (p[1] = "_" \/ Fold(p[1]) = Fold(s[1])) /\ Like(Tail(p), Tail(s))

\* Whether the compiled WHERE clause selects a row.
FindWhere(c, r) ==
    \/ c.where = "none"
    \/ c.where = "like" /\ Like(c.arg, r.name)
    \/ c.where = "eq" /\ r.name = c.arg

\* stmt.Query(args...) of the compiled statement on the connection handle.
FindSelect(w, c) ==
    LET ordered == OrderById({ r \in w.rows : FindWhere(c, r) })
    IN  IF c.window THEN Window(ordered, c.limit, c.offset) ELSE ordered

----------------------------------------------------------------------------
\* Inputs.

\* The library calls that fail during one call: none, one, or the statement's
\* execution and the rollback that follows it.
ReadFails == {{}, {"prepare"}, {"query"}, {"scan"}}
\* The calls a statement of Update, Delete and DeleteMany makes, and of Create.
StmtPoints == {"prepare", "exec"}
InsertPoints == {"prepare", "exec", "lastid"}
\* On a borrowed transaction only the statement's own calls can fail the call.
WriteFails(tx, points) ==
    {{}} \cup { {p} : p \in points }
    \cup IF tx # "nil" THEN {}
         ELSE {{"begin"}, {"commit"}, {"exec", "rollback"}}

\* The entities Create and Update are called with.
EndpointA == CHOOSE e \in NewEndpoints : e.Name = NameA
EndpointB == CHOOSE e \in NewEndpoints : e.Name = NameB
CreateArgs == {Nil, Ptr(EndpointA), Ptr(EndpointB), Ptr([EndpointA EXCEPT !.Id = 1])}
UpdateArgs == {Nil, Ptr(EndpointA)} \cup { Ptr([EndpointB EXCEPT !.Id = i]) : i \in 1..MaxId }

TxArgs == {"nil", "ctx"}

NoQuery == [Name |-> <<>>, Take |-> 0, Skip |-> 0]
Queries == { Nil, Ptr(NoQuery), Ptr([Name |-> <<"a", "*">>, Take |-> 1, Skip |-> 1]) }

\* Name patterns built from a literal: exact, prefix, suffix and substring.
Alphabet == {"a", "A", "b", "*", "_", "%"}
Literals == UNION { [1..n -> Alphabet] : n \in 1..MaxLit }
Pattern(mode, s) ==
    CASE mode = "exact" -> s
      [] mode = "prefix" -> s \o <<"*">>
      [] mode = "suffix" -> <<"*">> \o s
      [] mode = "contains" -> <<"*">> \o s \o <<"*">>
Modes == {"exact", "prefix", "suffix", "contains"}

FindQueries ==
    { Ptr([Name |-> Pattern(m, s), Take |-> 0, Skip |-> 0]) : m \in Modes, s \in Literals }
    \cup { Ptr([Name |-> n, Take |-> t, Skip |-> k]) :
             n \in {<<>>, <<"*", "a">>}, t \in (-1)..MaxTake, k \in (-1)..MaxSkip }

FindRow(i, n) == [id |-> i, name |-> n, url |-> "u1", method |-> "GET", headers |-> "h1"]
FindTables ==
    UNION { { { FindRow(i, n[i]) : i \in S } : n \in [S -> {NameA, NameB}] } :
            S \in SUBSET (1..MaxRows) }

----------------------------------------------------------------------------
\* The state after construction, and the calls.

NoCall ==
    [op |-> "Init", tx |-> "nil", argId |-> 0, argEp |-> Nil, argIds |-> {}, argQ |-> Nil,
     err |-> NoErr, id |-> 0, out |-> <<>>, panic |-> FALSE, events |-> <<>>,
     fault |-> <<>>, own |-> "none", open |-> 0]

\* What a repository call leaves in last: the world it ended in.
Result(call, w) ==
    [call EXCEPT !.err = w.err, !.id = w.id, !.out = w.out,
                 !.panic = w.panic, !.events = w.events, !.fault = w.fault,
                 !.own = w.own.status,
                 !.open = w.stmts.db + w.stmts.ctx + w.stmts.own]

\* The identifiers a call was about, and the entity a standalone Create stored.
Touched(r) ==
    CASE r.op = "Create" -> IF r.id # 0 THEN {r.id} ELSE {}
      [] r.op = "Update" -> IF r.argEp # Nil THEN {r.argEp[1].Id} ELSE {}
      [] r.op = "Delete" -> {r.argId}
      [] r.op = "DeleteMany" -> r.argIds
      [] OTHER -> {}
Stored(r) ==
    IF r.op = "Create" /\ r.tx = "nil" /\ r.id # 0
    THEN {[id |-> r.id, ep |-> r.argEp[1]]} ELSE {}

\* No history is kept; StoreHist is the history of a store that starts empty.
NoHist ==
    [on |-> FALSE, n |-> 0, m |-> 0, gone |-> {}, removed |-> {}, repeat |-> FALSE,
     prevId |-> 0]
StoreHist == [NoHist EXCEPT !.on = TRUE]

\* The history after a call that returned r and took the table from before to
\* after: n counts the Creates that returned success, m the existing rows a
\* successful Delete or DeleteMany was asked to delete; removed are the
\* identifiers the call took out of the table, gone those deleted and not
\* assigned again; repeat says that the call is a Create or Delete with the
\* arguments of the successful call just before it, which returned prevId.
HistAfter(r, before, after) ==
    IF ~hist.on THEN hist
    ELSE LET again == /\ r.op \in {"Create", "Delete"} /\ last.op = r.op
                      /\ last.err = NoErr /\ last.tx = r.tx
                      /\ last.argId = r.argId /\ last.argEp = r.argEp
         IN  [on |-> TRUE,
              n |-> hist.n + (IF r.op = "Create" /\ r.err = NoErr THEN 1 ELSE 0),
              m |-> hist.m + (IF r.op \in {"Delete", "DeleteMany"} /\ r.err = NoErr
                              THEN Cardinality(Touched(r) \cap IdsOf(before)) ELSE 0),
              gone |-> (hist.gone \cup (IdsOf(before) \ IdsOf(after))) \ IdsOf(after),
              removed |-> IdsOf(before) \ IdsOf(after),
              repeat |-> again,
              prevId |-> IF again THEN last.id ELSE 0]

\* The call returns (or panics) in world w.
Return(call, end) ==
    \E w \in {end} : \E r \in {Result(call, w)} :
    /\ rows' = w.rows
    /\ ctx' = w.ctx
    /\ last' = r
    /\ expected' = IF w.ctx.status # "open" THEN {}
                   ELSE IF r.tx = "nil" THEN w.rows ELSE expected
    /\ nested' = IF w.ctx.status # "open" THEN "none"
                 ELSE IF r.op = "Create" /\ r.tx = "ctx" /\ r.id # 0 THEN "A"
                 ELSE IF r.op = "Create" /\ r.tx = "ctx" /\ nested = "A"
                         /\ r.fault = <<"exec">> THEN "AB"
                 ELSE nested
    /\ created' = IF Stored(r) # {} THEN Stored(r)
                  ELSE { c \in created : c.id \notin Touched(r) }
    /\ hist' = HistAfter(r, rows, w.rows)
    /\ UNCHANGED keys

\* A transaction argument is nil or the caller's open transaction.
TxOk(tx) == tx = "ctx" => ctx.status = "open"

Init ==
    /\ rows = {}
    /\ ctx = NoTx
    /\ last = NoCall
    /\ expected = {}
    /\ nested = "none"
    /\ created = {}
    /\ keys = 1..MaxId
    /\ hist = NoHist

Get(id, f) ==
    \E call \in {[NoCall EXCEPT !.op = "Get", !.argId = id]}, w \in {World(rows, ctx)} :
    IF GetValidate(id) # NoErr THEN Return(call, [w EXCEPT !.err = GetValidate(id)])
    ELSE \E p \in {DbPrepare(w, f)} :
    IF p.err # NoErr THEN Return(call, p)
    \* defer stmt.Close()
    ELSE Return(call, StmtClose(ToEndpoint(Log(p, "QueryRow"), QueryRowById(p, id), f)))

Find(query, f) ==
    \E call \in {[NoCall EXCEPT !.op = "Find", !.argQ = query]}, w \in {World(rows, ctx)} :
    \E c \in {FindCompile(query)}, p \in {DbPrepare(w, f)} :
    IF p.err # NoErr THEN Return(call, p)
    \* defer stmt.Close()
    ELSE IF "query" \in f
    THEN Return(call, StmtClose(Fail(p, "Query", "query")))
    \* query.Take is read to call the mapper: with no filter the call panics there
    ELSE IF query = Nil
    THEN Return(call, StmtClose([Log(p, "Query") EXCEPT !.panic = TRUE]))
    ELSE Return(call, StmtClose(ToEndpoints(Log(p, "Query"), FindSelect(p, c),
                                            query[1].Take, f)))

Count(f) ==
    \E call \in {[NoCall EXCEPT !.op = "Count"]}, w \in {World(rows, ctx)} :
    \E p \in {DbPrepare(w, f)} :
    IF p.err # NoErr THEN Return(call, p)
    \* defer stmt.Close()
    ELSE IF "scan" \in f
    THEN Return(call, StmtClose(Fail(Log(p, "QueryRow"), "Scan", "scan")))
    ELSE Return(call, StmtClose([Log(p, "QueryRow")
                                    EXCEPT !.err = NoErr, !.id = CountRows(p)]))

Create(endpoint, tx, f) ==
    /\ TxOk(tx)
    /\ \E call \in {[NoCall EXCEPT !.op = "Create", !.tx = tx, !.argEp = endpoint]},
          w \in {World(rows, ctx)} :
       IF CreateValidate(endpoint) # NoErr
       THEN Return(call, [w EXCEPT !.err = CreateValidate(endpoint)])
       ELSE \E b \in {CreateAcquire(w, tx, f)} :
       IF b.w.err # NoErr THEN Return(call, b.w)
       ELSE \E p \in {TxPrepare(b.w, b.tx, f)} :
       IF p.err # NoErr THEN Return(call, CreateFail(p, b.tx, b.closeTx, f))
       \* the store assigns one of its identifiers
       ELSE \E nid \in keys : \E x \in {CreateExec(p, b.tx, endpoint[1], nid, f)} :
       IF x.err # NoErr THEN Return(call, CreateFail(x, b.tx, b.closeTx, f))
       ELSE \E l \in {LastInsertId(x, nid, f)} :
       IF l.err # NoErr THEN Return(call, CreateFail(l, b.tx, b.closeTx, f))
       ELSE Return(call, CreateCommit(l, b.tx, b.closeTx, f))

Update(endpoint, tx, f) ==
    /\ TxOk(tx)
    /\ \E call \in {[NoCall EXCEPT !.op = "Update", !.tx = tx, !.argEp = endpoint]},
          w \in {World(rows, ctx)} :
       IF UpdateValidate(endpoint) # NoErr
       THEN Return(call, [w EXCEPT !.err = UpdateValidate(endpoint)])
       ELSE \E b \in {TryToBegin(w, tx, f)} :
       IF b.w.err # NoErr THEN Return(call, b.w)
       ELSE \E p \in {TxPrepare(b.w, b.tx, f)} :
       IF p.err # NoErr THEN Return(call, TryToRollback(p, b.tx, p.err, b.closeTx, f))
       ELSE \E x \in {UpdateExec(p, b.tx, endpoint[1], f)} :
       IF x.err # NoErr THEN Return(call, TryToRollback(x, b.tx, x.err, b.closeTx, f))
       ELSE Return(call, TryToCommit(x, b.tx, b.closeTx, f))

Delete(id, tx, f) ==
    /\ TxOk(tx)
    /\ \E call \in {[NoCall EXCEPT !.op = "Delete", !.tx = tx, !.argId = id]},
          w \in {World(rows, ctx)} :
       IF DeleteValidate(id) # NoErr
       THEN Return(call, [w EXCEPT !.err = DeleteValidate(id)])
       ELSE \E b \in {TryToBegin(w, tx, f)} :
       IF b.w.err # NoErr THEN Return(call, b.w)
       ELSE \E p \in {TxPrepare(b.w, b.tx, f)} :
       IF p.err # NoErr THEN Return(call, TryToRollback(p, b.tx, p.err, b.closeTx, f))
       ELSE \E x \in {DeleteExec(p, b.tx, id, f)} :
       IF x.err # NoErr THEN Return(call, TryToRollback(x, b.tx, x.err, b.closeTx, f))
       ELSE Return(call, TryToCommit(x, b.tx, b.closeTx, f))

DeleteMany(ids, tx, f) ==
    /\ TxOk(tx)
    /\ \E call \in {[NoCall EXCEPT !.op = "DeleteMany", !.tx = tx, !.argIds = ids]},
          w \in {World(rows, ctx)} :
       IF DeleteManyValidate(ids) # NoErr
       THEN Return(call, [w EXCEPT !.err = DeleteManyValidate(ids)])
       ELSE \E b \in {TryToBegin(w, tx, f)} :
       IF b.w.err # NoErr THEN Return(call, b.w)
       ELSE \E p \in {TxPrepare(b.w, b.tx, f)} :
       IF p.err # NoErr THEN Return(call, TryToRollback(p, b.tx, p.err, b.closeTx, f))
       ELSE \E x \in {DeleteManyExec(p, b.tx, ids, f)} :
       IF x.err # NoErr THEN Return(call, TryToRollback(x, b.tx, x.err, b.closeTx, f))
       ELSE Return(call, TryToCommit(x, b.tx, b.closeTx, f))

\* The caller of the repository: db.Begin(), tx.Commit() and tx.Rollback() on its
\* own transaction.
CallerBegin ==
    /\ ctx.status # "open"
    /\ ctx' = [NoTx EXCEPT !.status = "open"]
    /\ last' = [NoCall EXCEPT !.op = "Begin"]
    /\ expected' = rows
    /\ nested' = "none"
    /\ UNCHANGED <<rows, created, keys, hist>>

CallerCommit ==
    /\ ctx.status = "open"
    /\ LET w == TxCommit(World(rows, ctx), "ctx", {})
       IN  /\ rows' = w.rows
           /\ ctx' = w.ctx
    /\ last' = [NoCall EXCEPT !.op = "Commit"]
    /\ UNCHANGED <<expected, nested, created, keys, hist>>

CallerRollback ==
    /\ ctx.status = "open"
    /\ LET w == TxRollback(World(rows, ctx), "ctx", {})
       IN  /\ rows' = w.rows
           /\ ctx' = w.ctx
    /\ last' = [NoCall EXCEPT !.op = "Rollback"]
    /\ UNCHANGED <<expected, nested, created, keys, hist>>

Next ==
    \/ \E id \in Ids, f \in ReadFails \ {{"query"}} : Get(id, f)
    \/ \E q \in Queries, f \in ReadFails : Find(q, f)
    \/ \E f \in ReadFails \ {{"query"}} : Count(f)
    \/ \E e \in CreateArgs, tx \in TxArgs :
          \E f \in WriteFails(tx, InsertPoints) : Create(e, tx, f)
    \/ \E e \in UpdateArgs, tx \in TxArgs : \E f \in WriteFails(tx, StmtPoints) : Update(e, tx, f)
    \/ \E id \in Ids, tx \in TxArgs : \E f \in WriteFails(tx, StmtPoints) : Delete(id, tx, f)
    \/ \E ids \in SUBSET (1..MaxId), tx \in TxArgs :
          \E f \in WriteFails(tx, StmtPoints) : DeleteMany(ids, tx, f)
    \/ CallerBegin
    \/ CallerCommit
    \/ CallerRollback

Spec == Init /\ [][Next]_vars

\* Find on every table of up to MaxRows rows, with every filter of FindQueries.
InitFind ==
    /\ rows \in FindTables
    /\ ctx = NoTx
    /\ last = NoCall
    /\ expected = {}
    /\ nested = "none"
    /\ created = {}
    /\ keys = 1..MaxId
    /\ hist = NoHist

\* One Find per table: a Find changes nothing the next one reads.
NextFind == last.op = "Init" /\ \E q \in FindQueries, f \in {{}, {"scan"}} : Find(q, f)

SpecFind == InitFind /\ [][NextFind]_vars

\* The calls with tx = nil on a store that starts empty and assigns the
\* identifiers 1..MaxKeys, with the history of what was inserted and deleted.
InitStore ==
    /\ rows = {}
    /\ ctx = NoTx
    /\ last = NoCall
    /\ expected = {}
    /\ nested = "none"
    /\ created = {}
    /\ keys = 1..MaxKeys
    /\ hist = StoreHist

StoreFails == {{}, {"exec"}, {"commit"}}

NextStore ==
    \/ \E id \in keys : Get(id, {})
    \/ Count({})
    \/ hist.n < MaxCreates /\ \E f \in StoreFails : Create(Ptr(EndpointA), "nil", f)
    \/ \E id \in keys : Update(Ptr([EndpointB EXCEPT !.Id = id]), "nil", {})
    \/ \E id \in keys, f \in {{}, {"exec"}} : Delete(id, "nil", f)
    \/ \E ids \in SUBSET keys, f \in StoreFails : DeleteMany(ids, "nil", f)

SpecStore == InitStore /\ [][NextStore]_vars

----------------------------------------------------------------------------
\* Properties.

MutOps == {"Create", "Update", "Delete", "DeleteMany"}
Events(l) == { l.events[i] : i \in 1..Len(l.events) }
Faults(l) == { l.fault[i] : i \in 1..Len(l.fault) }
\* The first library call that failed was one of the statement's own.
FailedAfterAcquire(l) ==
    l.op \in MutOps /\ l.fault # <<>> /\ l.fault[1] \in {"prepare", "exec", "lastid"}
MapRows(sel) == [i \in 1..Len(sel) |-> EndpointOf(sel[i])]

\* C1: a mutating call given the caller's transaction makes no Commit and no
\* Rollback on it, on the success path and on every failure path, and the
\* transaction is still open when the call returns.
C1_BorrowedNeverResolved ==
    (last.op \in MutOps /\ last.tx = "ctx")
        => /\ ctx.status = "open"
           /\ Events(last) \cap {"Begin", "Commit", "Rollback"} = {}

\* A Create on the caller's transaction whose insert failed, after an earlier
\* write of the same transaction.
C1_Witness ==
    /\ last.op = "Create" /\ last.tx = "ctx" /\ last.fault = <<"exec">>
    /\ ctx.status = "open" /\ ctx.dirty

\* C2: when a mutating call made with tx = nil has returned, the transaction it
\* opened is not open any more: a Commit or a Rollback was made on it.
C2_OwnedResolved ==
    (last.op \in MutOps /\ last.tx = "nil")
        => /\ last.own # "open"
           /\ last.own # "none" => Events(last) \cap {"Commit", "Rollback"} # {}

\* A standalone Create whose insert failed and whose transaction was rolled back.
C2_Witness ==
    /\ last.op = "Create" /\ last.tx = "nil" /\ last.fault = <<"exec">>
    /\ last.own = "rolledback"

\* C3: after the caller rolls its transaction back, the committed rows are those
\* present when it began (as calls with tx = nil changed them since): nothing a
\* Create made with the transaction is persisted.
C3_NestedAtomic == last.op = "Rollback" => rows = expected

\* Create A succeeded and Create B's insert failed on the caller's transaction,
\* and the caller rolled back.
C3_Witness == last.op = "Rollback" /\ nested = "AB" /\ rows = expected

\* A call the argument validation rejects.
Rejected(l) ==
    \/ l.op \in {"Get", "Delete"} /\ l.argId = 0
    \/ l.op \in {"Create", "Update"} /\ l.argEp = Nil
    \/ l.op = "Create" /\ l.argEp # Nil /\ l.argEp[1].Id # 0
    \/ l.op = "Update" /\ l.argEp # Nil /\ l.argEp[1].Id = 0
    \/ l.op = "DeleteMany" /\ l.argIds = {}

\* C4: a call rejected by argument validation returns an error, begins no
\* transaction, prepares no statement, and leaves the rows and the caller's
\* transaction as they were.
C4_ValidationBeforeAcquire ==
    [][Rejected(last')
         => /\ last'.err # NoErr
            /\ last'.events = <<>>
            /\ last'.open = 0
            /\ last'.own = "none"
            /\ rows' = rows
            /\ ctx' = ctx]_vars

\* A Create of an already-persisted entity, rejected while the caller's
\* transaction holds writes.
C4_Witness ==
    /\ last.op = "Create" /\ last.argEp # Nil /\ last.tx = "ctx"
    /\ last.err = <<"endpoint already created">>
    /\ ctx.status = "open" /\ ctx.dirty

\* C5: a mutating call whose prepare, execute or identifier read-back failed
\* returns an error: the failure itself, or, when the rollback failed too, the
\* rollback's failure wrapped around it; a Rollback is made iff the transaction
\* is owned.
C5_FailurePropagates ==
    FailedAfterAcquire(last)
        => /\ last.err # NoErr
           /\ last.err[Len(last.err)] = last.fault[1]
           /\ "Rollback" \in Events(last) <=> last.tx = "nil"
           /\ last.err = IF "rollback" \in Faults(last)
                         THEN <<"rollback", last.fault[1]>> ELSE <<last.fault[1]>>

\* A standalone Create whose insert failed and whose rollback failed as well.
C5_Witness ==
    /\ last.op = "Create" /\ last.tx = "nil" /\ last.fault = <<"exec", "rollback">>
    /\ last.err = <<"rollback", "exec">>

\* C6: a standalone Create that succeeds returns an identifier > 0, and a Get of
\* that identifier, with no Update or Delete of it in between and no failure of
\* the store, returns the entity passed to Create under that identifier.
C6_CreateGetRoundTrip ==
    /\ (last.op = "Create" /\ last.tx = "nil" /\ last.err = NoErr) => last.id > 0
    /\ \A c \in created :
         (last.op = "Get" /\ last.argId = c.id /\ last.fault = <<>>)
             => /\ c.ep.Id = 0
                /\ last.err = NoErr
                /\ last.out = <<[c.ep EXCEPT !.Id = c.id]>>

\* A Get that returned the entity of the last standalone Create.
C6_Witness ==
    /\ last.op = "Get" /\ last.err = NoErr
    /\ \E c \in created : c.id = last.argId /\ c.id > 0 /\ last.out = <<[c.ep EXCEPT !.Id = c.id]>>

\* C7: Find with no filter succeeds and returns every row in ascending
\* identifier order (none on an empty table).
C7_FindNoFilter ==
    (last.op = "Find" /\ last.argQ = Nil /\ last.fault = <<>>)
        => /\ ~last.panic
           /\ last.err = NoErr
           /\ last.out = MapRows(OrderById(rows))

\* C8: when a repository call has returned, no statement it prepared is open.
C8_StatementsReleased == last.open = 0

StarFree(s) == \A i \in 1..Len(s) : s[i] # "*"
\* Whether name matches the literal s in the mode a pattern selects.
Matches(m, s, name) ==
    CASE m = "exact" -> name = s
      [] m = "prefix" -> Len(name) >= Len(s) /\ SubSeq(name, 1, Len(s)) = s
      [] m = "suffix" ->
            Len(name) >= Len(s) /\ SubSeq(name, Len(name) - Len(s) + 1, Len(name)) = s
      [] m = "contains" ->
            \E i \in 1..(Len(name) - Len(s) + 1) : SubSeq(name, i, i + Len(s) - 1) = s

\* C9: for a pattern built from a non-empty literal s, Find returns exactly the
\* rows whose name equals s (pattern s), starts with s (s*), ends with s (*s) or
\* contains s (*s*), in ascending identifier order.
C9_NameMatching ==
    \A m \in Modes, s \in Literals :
        (/\ StarFree(s)
         /\ last.op = "Find" /\ last.fault = <<>>
         /\ last.argQ = Ptr([Name |-> Pattern(m, s), Take |-> 0, Skip |-> 0]))
            => /\ last.err = NoErr
               /\ last.out = MapRows(OrderById({ r \in rows : Matches(m, s, r.name) }))

\* The rows a filter's name pattern selects, in ascending identifier order.
Selected(query) == MapRows(OrderById({ r \in rows : FindWhere(FindCompile(query), r) }))

\* C10: with take t > 0 and skip s >= 0, Find returns the selected rows at
\* positions s+1 .. s+t of the ascending-identifier order (fewer when the rows
\* run out), never more than t; with take <= 0 it returns every selected row,
\* whatever skip is.
C10_Pagination ==
    (last.op = "Find" /\ last.argQ # Nil /\ last.fault = <<>>)
        => LET q == last.argQ[1]
               all == Selected(last.argQ)
           IN  IF q.Take > 0
               THEN q.Skip >= 0
                      => /\ last.out = SubSeq(all, q.Skip + 1, Min(Len(all), q.Skip + q.Take))
                         /\ Len(last.out) <= q.Take
               ELSE last.out = all

\* take 2, skip 1 over four rows: the second and third, not the fourth.
C10_Witness ==
    /\ last.op = "Find" /\ last.argQ = Ptr([Name |-> <<>>, Take |-> 2, Skip |-> 1])
    /\ IdsOf(rows) = 1..4
    /\ Len(last.out) = 2 /\ last.out[1].Id = 2 /\ last.out[2].Id = 3

\* The rows of a table under the identifier id.
RowsWithId(table, id) == { r \in table : r.id = id }

\* C11: a standalone DeleteMany of a non-empty identifier set that succeeds has
\* made one Begin, one Prepare, one Exec and one Commit and has removed exactly
\* the rows whose identifier is in the set; one that fails has removed none.
C11_DeleteManyExact ==
    [][(last'.op = "DeleteMany" /\ last'.tx = "nil" /\ last'.argIds # {})
         => /\ last'.err = NoErr <=> last'.fault = <<>>
            /\ IF last'.err = NoErr
               THEN /\ rows' = { r \in rows : r.id \notin last'.argIds }
                    /\ last'.events = <<"Begin", "Prepare", "Exec", "Commit">>
               ELSE rows' = rows]_vars

\* DeleteMany of {1, 2} removed both rows and left the third.
C11_Witness ==
    /\ last.op = "DeleteMany" /\ last.argIds = {1, 2} /\ last.err = NoErr
    /\ hist.removed = {1, 2} /\ IdsOf(rows) = {3}

\* C12: an Update of an entity whose identifier is > 0 and matches no row
\* returns no error and leaves the table as it was, and a standalone one
\* commits the transaction it opened.
C12_UpdateNoMatch ==
    [][(/\ last'.op = "Update" /\ last'.argEp # Nil /\ last'.fault = <<>>
        /\ last'.argEp[1].Id > 0 /\ last'.argEp[1].Id \notin IdsOf(rows))
         => /\ last'.err = NoErr
            /\ rows' = rows
            /\ last'.tx = "nil"
                 => last'.own = "committed" /\ "Commit" \in Events(last')]_vars

\* An Update of identifier 1 on a table that holds other rows only.
C12_Witness ==
    /\ last.op = "Update" /\ last.err = NoErr /\ last.own = "committed"
    /\ rows # {} /\ last.argEp[1].Id \notin IdsOf(rows)

\* C13: on a store that started empty, Count returns the number of Creates that
\* succeeded minus the number of existing rows the successful Deletes and
\* DeleteManys deleted, and never less than 0.
C13_CountIsInsertedMinusDeleted ==
    (last.op = "Count" /\ last.fault = <<>>)
        => /\ last.err = NoErr
           /\ last.id = hist.n - hist.m
           /\ last.id >= 0

\* Three rows inserted, two of them deleted, Count returned 1.
C13_Witness ==
    /\ last.op = "Count" /\ last.err = NoErr
    /\ hist.n = 3 /\ hist.m = 2 /\ last.id = 1

\* C14: Get of an identifier > 0 that no row has returns the not-found error
\* and no entity; otherwise it returns the entity of the row with that
\* identifier, and never an entity with another identifier.
C14_GetFoundOrNotFound ==
    (last.op = "Get" /\ last.argId > 0 /\ last.fault = <<>>)
        => IF RowsWithId(rows, last.argId) = {}
           THEN last.err = <<"not found">> /\ last.out = <<>>
           ELSE /\ last.err = NoErr
                /\ Len(last.out) = 1
                /\ last.out[1].Id = last.argId
                /\ \E r \in RowsWithId(rows, last.argId) : last.out[1] = EndpointOf(r)

\* Get of an identifier that was deleted, on a table that holds other rows.
C14_Witness ==
    /\ last.op = "Get" /\ last.err = <<"not found">>
    /\ last.argId \in hist.gone /\ rows # {}

\* C15: every row has an identifier > 0 and no two rows have the same one; the
\* identifier a successful Create returned is that of exactly one row, as long
\* as no later call was about that identifier.
C15_IdentifiersUnique ==
    /\ \A r \in rows : r.id > 0
    /\ \A r1, r2 \in rows : r1.id = r2.id => r1 = r2
    /\ (last.op = "Create" /\ last.err = NoErr)
         => last.id > 0 /\ Cardinality(RowsWithId(rows, last.id)) = 1
    /\ \A c \in created : Cardinality(RowsWithId(rows, c.id)) = 1

\* A third row was created next to two others, one of them updated.
C15_Witness ==
    /\ last.op = "Create" /\ last.err = NoErr /\ Cardinality(rows) = 3
    /\ \E r \in rows : r.name = NameB

\* How often the library call e was made during the call l.
Occurrences(l, e) == Cardinality({ i \in 1..Len(l.events) : l.events[i] = e })
\* The library calls of a mutating call before it resolves its transaction.
Steps(l) ==
    (IF l.tx = "nil" THEN <<"Begin">> ELSE <<>>) \o <<"Prepare", "Exec">>
    \o (IF l.op = "Create" THEN <<"LastInsertId">> ELSE <<>>)
IsPrefix(s, t) == Len(s) <= Len(t) /\ SubSeq(t, 1, Len(s)) = s

\* C16: a mutating call makes its library calls in the order Begin (when it
\* owns), Prepare, Exec, (LastInsertId,) then Commit or Rollback: a Commit only
\* after all of them succeeded, a Rollback only after one of Prepare, Exec and
\* LastInsertId failed, and never more than one Commit or Rollback in a call; a
\* call that opened a transaction makes exactly one of them.
C16_CallStateMachine ==
    (last.op \in MutOps /\ last.events # <<>>)
        => LET n == Len(last.events)
               resolved == last.events[n] \in {"Commit", "Rollback"}
               steps == IF resolved THEN SubSeq(last.events, 1, n - 1) ELSE last.events
           IN  /\ IsPrefix(steps, Steps(last))
               /\ Occurrences(last, "Commit") + Occurrences(last, "Rollback") <= 1
               /\ "Commit" \in Events(last)
                    => /\ steps = Steps(last)
                       /\ Faults(last) \subseteq {"commit"}
               /\ "Rollback" \in Events(last)
                    => /\ last.fault # <<>>
                       /\ last.fault[1] \in {"prepare", "exec", "lastid"}
               /\ last.own # "none" => resolved
               /\ last.tx = "ctx" => ~resolved

\* A standalone Create whose commit was refused: one Commit, no Rollback.
C16_Witness ==
    /\ last.op = "Create" /\ last.tx = "nil" /\ last.fault = <<"commit">>
    /\ last.events = <<"Begin", "Prepare", "Exec", "LastInsertId", "Commit">>

ReadOf(l, table) ==
    CASE l.op = "Count" -> [id |-> Cardinality(table), out |-> <<>>, err |-> NoErr]
      [] l.op = "Get" ->
            [id |-> 0, out |-> MapRows(OrderById(RowsWithId(table, l.argId))),
             err |-> IF RowsWithId(table, l.argId) = {} THEN <<"not found">> ELSE NoErr]
      [] l.op = "Find" ->
            [id |-> 0, out |-> MapRows(FindSelect([rows |-> table], FindCompile(l.argQ))),
             err |-> NoErr]

\* C18: a Get, Find or Count made while the caller's transaction is open begins,
\* commits and rolls back nothing and returns what the rows committed outside
\* that transaction give; the rows written under the transaction are the
\* committed rows after the caller's Commit, and are dropped by its Rollback.
C18_ReadsSeeCommittedOnly ==
    [][/\ (/\ last'.op \in {"Get", "Find", "Count"} /\ ctx'.status = "open"
           /\ last'.fault = <<>> /\ ~last'.panic
           /\ last'.op = "Get" => last'.argId > 0)
            => /\ Events(last') \cap {"Begin", "Commit", "Rollback"} = {}
               /\ ctx' = ctx
               /\ [id |-> last'.id, out |-> last'.out, err |-> last'.err]
                     = ReadOf(last', expected')
       /\ last'.op = "Commit" => rows' = (IF ctx.dirty THEN ctx.view ELSE rows)
       /\ last'.op = "Rollback" => rows' = rows]_vars

\* A Get of the identifier of a row created under the caller's open transaction
\* finds nothing.
C18_Witness ==
    /\ last.op = "Get" /\ last.err = <<"not found">>
    /\ ctx.status = "open" /\ ctx.dirty
    /\ RowsWithId(ctx.view, last.argId) # {}

\* C19: a standalone Create that returns an identifier other than 0 has
\* committed its transaction; one whose insert and identifier read-back
\* succeeded and whose commit failed returns 0 with the commit's error and
\* leaves the table as it was.
C19_IdOnlyAfterCommit ==
    [][(last'.op = "Create" /\ last'.tx = "nil")
         => /\ last'.id # 0
                 => /\ last'.own = "committed" /\ last'.err = NoErr
                    /\ RowsWithId(rows', last'.id) # {}
            /\ last'.fault = <<"commit">>
                 => /\ last'.id = 0
                    /\ last'.err = <<"commit">>
                    /\ rows' = rows]_vars

\* The insert and the identifier read-back succeeded and the commit failed.
C19_Witness ==
    /\ last.op = "Create" /\ last.tx = "nil" /\ last.fault = <<"commit">>
    /\ "LastInsertId" \in Events(last) /\ last.id = 0 /\ last.err = <<"commit">>

\* C20: a Delete of an identifier > 0 that no row has returns no error and
\* leaves the table as it was; so does a Delete that repeats the successful
\* Delete just before it.
C20_DeleteIdempotent ==
    [][/\ (/\ last'.op = "Delete" /\ last'.argId > 0 /\ last'.fault = <<>>
           /\ RowsWithId(rows, last'.argId) = {})
            => last'.err = NoErr /\ rows' = rows
       /\ (last'.op = "Delete" /\ hist'.repeat /\ last'.fault = <<>>)
            => last'.err = NoErr /\ rows' = rows]_vars

\* The Delete of a row, made a second time, with other rows in the table.
C20_Witness ==
    /\ last.op = "Delete" /\ hist.repeat /\ last.err = NoErr
    /\ last.argId \in hist.gone /\ hist.removed = {} /\ rows # {}

====
